---- MODULE Spec2Model ----
(***************************************************************************)
(* A model of pyod/utils/data.py: the synthetic data generator             *)
(* generate_data, the colour labeler _get_color_codes and the evaluation   *)
(* printer evaluate_print.                                                 *)
(*                                                                         *)
(* Arrays are sequences.  A sample row is not modelled by its coordinates  *)
(* but by the random population it was drawn from: <<"randn", centre>> for *)
(* a row of 0.3 * randn(k, 2) + centre and <<"uniform", high>> for a row   *)
(* of uniform(low=-high, high=high, size=(k, 2)).  The contamination is a  *)
(* dyadic rational cnum / ContDen, which a float holds exactly, so that    *)
(* int(n * contamination) is the truncation of the exact product.          *)
(***************************************************************************)
EXTENDS Integers, Sequences, FiniteSets, TLC

VARIABLES
    \* ---- generate_data: one activation and its caller
    pc,               \* position of the activation
    n_train, n_test, cnum, train_only,          \* the arguments
    n_outliers, n_inliers, n_outliers_test, n_inliers_test,
    X_train, y_train, X_test, y_test,           \* the local arrays
    allocated,        \* names of the local arrays that have been built
    draws,            \* the random draws made so far, in order
    ret,              \* the tuple handed to the caller (<<>>: nothing)
    raised_at,        \* the source line that raised, 0 when none
    calls,            \* number of calls the caller has made
    prev,             \* outcome of the caller's previous call
    \* ---- _get_color_codes
    lc_pc, lc_y, lc_arg, lc_c,
    \* ---- evaluate_print
    ev_pc, ev_name, ev_y, ev_pred, stdout, ev_ret

gen_vars == <<pc, n_train, n_test, cnum, train_only, n_outliers, n_inliers,
              n_outliers_test, n_inliers_test, X_train, y_train, X_test,
              y_test, allocated, draws, ret, raised_at, calls, prev>>
lc_vars == <<lc_pc, lc_y, lc_arg, lc_c>>
ev_vars == <<ev_pc, ev_name, ev_y, ev_pred, stdout, ev_ret>>
vars == <<gen_vars, lc_vars, ev_vars>>

----------------------------------------------------------------------------
\* Bounds of the model.

\* Largest sample count a caller asks for.
MaxN == 6
\* Smallest (negative) sample count a caller asks for is -MinNeg.
MinNeg == 2
\* Contamination values are multiples of 1 / 2^ContDenLog.
ContDenLog == 3
\* Number of calls one caller makes in a behaviour.
MaxCalls == 2

ContDen == 2 ^ ContDenLog

\* Sample counts: negative, zero and positive ones.
Counts == (0 - MinNeg) .. MaxN
\* Contamination numerators: from below 0 to above 1.
CNums == (0 - 2) .. (ContDen + 2)

\* contamination (= cnum / ContDen) lies in the open interval (0, 0.5)
ValidContamination(c) == 0 < c /\ 2 * c < ContDen

----------------------------------------------------------------------------
\* Program constants of generate_data.

offset == 2
TrainHigh == 6
TestHigh == 8

----------------------------------------------------------------------------
\* Helpers of generate_data.

\* int(x) of the float x = num / den (den > 0): truncation towards zero.
int(num, den) ==
    IF num >= 0 THEN num \div den ELSE 0 - ((0 - num) \div den)

\* floor(num / den), the mathematical floor (den > 0).
Floor(num, den) == num \div den

\* 0.3 * np.random.randn(k, 2) + centre: k rows of the Gaussian cluster.
randn(k, centre) == [i \in 1 .. k |-> <<"randn", centre>>]

\* np.random.uniform(low=-high, high=high, size=(k, 2)).
uniform(k, high) == [i \in 1 .. k |-> <<"uniform", high>>]

\* np.r_[A, B]: row-wise concatenation.
r_(A, B) == A \o B

\* np.zeros([k, 1]).
zeros(k) == [i \in 1 .. k |-> 0]

\* The first index (0-based) of the slice y[start:] of a length-len array.
SliceStart(start, len) ==
    IF start < 0
    THEN (IF len + start < 0 THEN 0 ELSE len + start)
    ELSE (IF start > len THEN len ELSE start)

\* A variant of SetTail that writes the head of the array: y[:start, ] = 1.
SetTailHead(y, start) ==
    [i \in 1 .. Len(y) |-> IF i <= SliceStart(start, Len(y)) THEN 1 ELSE y[i]]

\* y[start:, ] = 1
SetTail(y, start) ==
    [i \in 1 .. Len(y) |-> IF i > SliceStart(start, Len(y)) THEN 1 ELSE y[i]]

\* check_X_y(X, y.ravel()) accepts: at least one sample, consistent lengths.
check_X_y(X, y) == Len(X) >= 1 /\ Len(X) = Len(y)

\* A variant of SkipsTest that ignores train_only.
SkipsTestNever(t) == FALSE

\* `if train_only:` -- the test split is skipped
SkipsTest(t) == t

\* A variant of Propagated that swallows the failure and hands back the
\* splits validated so far.
PropagatedSwallowed(validated) == validated

\* What the caller gets when a statement raises after `validated` was built:
\* the exception propagates and no value is returned.
Propagated(validated) == <<>>

NoOutcome == [status |-> "none", nvalues |-> 0, rows |-> 0, labels |-> <<>>]

\* The outcome of a finished call as its caller observes it.
Outcome ==
    [status  |-> pc,
     nvalues |-> Len(ret),
     rows    |-> IF Len(ret) >= 1 THEN Len(ret[1]) ELSE 0,
     labels  |-> IF Len(ret) >= 2 THEN ret[2] ELSE <<>>]

Finished == pc \in {"returned", "raised"}

----------------------------------------------------------------------------
\* generate_data, statement by statement.

GenInit ==
    /\ pc = "idle"
    /\ n_train = 0 /\ n_test = 0 /\ cnum = 0 /\ train_only = FALSE
    /\ n_outliers = 0 /\ n_inliers = 0
    /\ n_outliers_test = 0 /\ n_inliers_test = 0
    /\ X_train = <<>> /\ y_train = <<>> /\ X_test = <<>> /\ y_test = <<>>
    /\ allocated = {}
    /\ draws = <<>>
    /\ ret = <<>>
    /\ raised_at = 0
    /\ calls = 0
    /\ prev = NoOutcome

\* A fresh activation: locals unbound, nothing drawn, nothing returned.
Enter(nt, nte, c, t) ==
    /\ pc' = "counts"
    /\ n_train' = nt /\ n_test' = nte /\ cnum' = c /\ train_only' = t
    /\ n_outliers' = 0 /\ n_inliers' = 0
    /\ n_outliers_test' = 0 /\ n_inliers_test' = 0
    /\ X_train' = <<>> /\ y_train' = <<>> /\ X_test' = <<>> /\ y_test' = <<>>
    /\ allocated' = {}
    /\ draws' = <<>>
    /\ ret' = <<>>
    /\ raised_at' = 0
    /\ calls' = calls + 1

\* The caller's first call, with any arguments.
Call ==
    /\ pc = "idle"
    /\ \E nt \in Counts, nte \in Counts, c \in CNums, t \in BOOLEAN :
           Enter(nt, nte, c, t)
    /\ prev' = prev
    /\ UNCHANGED <<lc_vars, ev_vars>>

\* The caller repeats its call with another n_test, everything else equal.
CallAgain ==
    /\ Finished
    /\ calls < MaxCalls
    /\ \E nte \in Counts : Enter(n_train, nte, cnum, train_only)
    /\ prev' = Outcome
    /\ UNCHANGED <<lc_vars, ev_vars>>

\* A statement at `line` raises.  generate_data has no try/except, so the
\* caller gets what Propagated makes of the splits validated so far.
Raise(line) ==
    /\ pc' = "raised"
    /\ raised_at' = line
    /\ ret' = Propagated(IF line > 65 THEN <<X_train, y_train>> ELSE <<>>)

\* lines 43-49
ComputeCounts ==
    /\ pc = "counts"
    /\ n_outliers' = int(n_train * cnum, ContDen)
    /\ n_inliers' = n_train - int(n_train * cnum, ContDen)
    /\ n_outliers_test' = int(n_test * cnum, ContDen)
    /\ n_inliers_test' = n_test - int(n_test * cnum, ContDen)
    /\ pc' = "inliers_train"
    /\ UNCHANGED <<n_train, n_test, cnum, train_only, X_train, y_train,
                   X_test, y_test, allocated, draws, ret, raised_at, calls,
                   prev, lc_vars, ev_vars>>

\* lines 52-54: randn raises ValueError on a negative dimension
InliersTrain ==
    /\ pc = "inliers_train"
    /\ IF n_inliers \div 2 < 0
       THEN /\ Raise(52)
            /\ UNCHANGED <<X_train, allocated, draws>>
       ELSE /\ X_train' = r_(randn(n_inliers \div 2, 0 - offset),
                             randn(n_inliers \div 2, offset))
            /\ allocated' = allocated \cup {"X_train"}
            /\ draws' = draws \o <<"randn_train", "randn_train">>
            /\ pc' = "outliers_train"
            /\ UNCHANGED <<ret, raised_at>>
    /\ UNCHANGED <<n_train, n_test, cnum, train_only, n_outliers, n_inliers,
                   n_outliers_test, n_inliers_test, y_train, X_test, y_test,
                   calls, prev, lc_vars, ev_vars>>

\* lines 57-58: uniform raises ValueError on a negative size
OutliersTrain ==
    /\ pc = "outliers_train"
    /\ IF n_outliers < 0
       THEN /\ Raise(58)
            /\ UNCHANGED <<X_train, draws>>
       ELSE /\ X_train' = r_(X_train, uniform(n_outliers, TrainHigh))
            /\ draws' = Append(draws, "uniform_train")
            /\ pc' = "target_train"
            /\ UNCHANGED <<ret, raised_at>>
    /\ UNCHANGED <<n_train, n_test, cnum, train_only, n_outliers, n_inliers,
                   n_outliers_test, n_inliers_test, y_train, X_test, y_test,
                   allocated, calls, prev, lc_vars, ev_vars>>

\* lines 61-63
TargetTrain ==
    /\ pc = "target_train"
    /\ y_train' = SetTail(zeros(Len(X_train)), n_inliers)
    /\ allocated' = allocated \cup {"y_train"}
    /\ pc' = "check_train"
    /\ UNCHANGED <<n_train, n_test, cnum, train_only, n_outliers, n_inliers,
                   n_outliers_test, n_inliers_test, X_train, X_test, y_test,
                   draws, ret, raised_at, calls, prev, lc_vars, ev_vars>>

\* line 65
ValidateTrain ==
    /\ pc = "check_train"
    /\ IF check_X_y(X_train, y_train)
       THEN pc' = "train_ok" /\ UNCHANGED <<ret, raised_at>>
       ELSE Raise(65)
    /\ UNCHANGED <<n_train, n_test, cnum, train_only, n_outliers, n_inliers,
                   n_outliers_test, n_inliers_test, X_train, y_train, X_test,
                   y_test, allocated, draws, calls, prev, lc_vars, ev_vars>>

\* lines 67-69
ReturnTrainOnly ==
    /\ pc = "train_ok"
    /\ SkipsTest(train_only)
    /\ ret' = <<X_train, y_train>>
    /\ pc' = "returned"
    /\ UNCHANGED <<n_train, n_test, cnum, train_only, n_outliers, n_inliers,
                   n_outliers_test, n_inliers_test, X_train, y_train, X_test,
                   y_test, allocated, draws, raised_at, calls, prev, lc_vars,
                   ev_vars>>

\* lines 72-74
InliersTest ==
    /\ pc = "train_ok"
    /\ ~SkipsTest(train_only)
    /\ IF n_inliers_test \div 2 < 0
       THEN /\ Raise(72)
            /\ UNCHANGED <<X_test, allocated, draws>>
       ELSE /\ X_test' = r_(randn(n_inliers_test \div 2, 0 - offset),
                            randn(n_inliers_test \div 2, offset))
            /\ allocated' = allocated \cup {"X_test"}
            /\ draws' = draws \o <<"randn_test", "randn_test">>
            /\ pc' = "outliers_test"
            /\ UNCHANGED <<ret, raised_at>>
    /\ UNCHANGED <<n_train, n_test, cnum, train_only, n_outliers, n_inliers,
                   n_outliers_test, n_inliers_test, X_train, y_train, y_test,
                   calls, prev, lc_vars, ev_vars>>

\* lines 77-78
OutliersTest ==
    /\ pc = "outliers_test"
    /\ IF n_outliers_test < 0
       THEN /\ Raise(78)
            /\ UNCHANGED <<X_test, draws>>
       ELSE /\ X_test' = r_(X_test, uniform(n_outliers_test, TestHigh))
            /\ draws' = Append(draws, "uniform_test")
            /\ pc' = "target_test"
            /\ UNCHANGED <<ret, raised_at>>
    /\ UNCHANGED <<n_train, n_test, cnum, train_only, n_outliers, n_inliers,
                   n_outliers_test, n_inliers_test, X_train, y_train, y_test,
                   allocated, calls, prev, lc_vars, ev_vars>>

\* lines 79-83
TargetTest ==
    /\ pc = "target_test"
    /\ y_test' = SetTail(zeros(Len(X_test)), n_inliers_test)
    /\ allocated' = allocated \cup {"y_test"}
    /\ pc' = "check_test"
    /\ UNCHANGED <<n_train, n_test, cnum, train_only, n_outliers, n_inliers,
                   n_outliers_test, n_inliers_test, X_train, y_train, X_test,
                   draws, ret, raised_at, calls, prev, lc_vars, ev_vars>>

\* line 85
ValidateTest ==
    /\ pc = "check_test"
    /\ IF check_X_y(X_test, y_test)
       THEN pc' = "test_ok" /\ UNCHANGED <<ret, raised_at>>
       ELSE Raise(85)
    /\ UNCHANGED <<n_train, n_test, cnum, train_only, n_outliers, n_inliers,
                   n_outliers_test, n_inliers_test, X_train, y_train, X_test,
                   y_test, allocated, draws, calls, prev, lc_vars, ev_vars>>

\* line 88
ReturnAll ==
    /\ pc = "test_ok"
    /\ ret' = <<X_train, y_train, X_test, y_test>>
    /\ pc' = "returned"
    /\ UNCHANGED <<n_train, n_test, cnum, train_only, n_outliers, n_inliers,
                   n_outliers_test, n_inliers_test, X_train, y_train, X_test,
                   y_test, allocated, draws, raised_at, calls, prev, lc_vars,
                   ev_vars>>

GenNext ==
    \/ Call
    \/ CallAgain
    \/ ComputeCounts
    \/ InliersTrain
    \/ OutliersTrain
    \/ TargetTrain
    \/ ValidateTrain
    \/ ReturnTrainOnly
    \/ InliersTest
    \/ OutliersTest
    \/ TargetTest
    \/ ValidateTest
    \/ ReturnAll

----------------------------------------------------------------------------
\* Arrays handed to _get_color_codes and evaluate_print: a shape and the
\* elements in row-major order.

\* Longest label array handed to _get_color_codes.
MaxLen == 3

RECURSIVE Prod(_)
Prod(shape) == IF shape = <<>> THEN 1 ELSE Head(shape) * Prod(Tail(shape))

\* Label values a caller may pass: 0, 1 and values that are neither.
LabelValues == {0 - 1, 0, 1, 2}

Shapes ==
    {<<n>> : n \in 0 .. MaxLen}
        \cup {sh \in (0 .. MaxLen) \X (1 .. 2) : sh[1] * sh[2] <= MaxLen}

Arrays ==
    UNION {{[shape |-> sh, data |-> d] : d \in [1 .. Prod(sh) -> LabelValues]}
               : sh \in Shapes}

\* column_or_1d(y) accepts shape (n,) and shape (n, 1), else raises ValueError.
column_or_1d_ok(a) ==
    \/ Len(a.shape) = 1
    \/ Len(a.shape) = 2 /\ a.shape[2] = 1

\* column_or_1d(y): np.ravel(y), a flat sequence of the same elements.
column_or_1d(a) == a.data

\* np.full([k], v, dtype=str)
full(k, v) == [i \in 1 .. k |-> v]

\* A variant of where_eq_1 that takes every non-zero label: np.where(y != 0).
where_nonzero(y) == {i \in 1 .. Len(y) : y[i] # 0}

\* np.where(y == 1): the indices whose element equals 1.
where_eq_1(y) == {i \in 1 .. Len(y) : y[i] = 1}

\* lines 103-112 of _get_color_codes, on an accepted input
get_color_codes(a) ==
    LET y == column_or_1d(a)
        c == full(Len(y), "b")
    IN  [i \in 1 .. Len(y) |-> IF i \in where_eq_1(y) THEN "r" ELSE c[i]]

\* The argument object after _get_color_codes ran: it is never written.
ArgAfterColorCodes(a) == a

LcInit ==
    /\ lc_pc = "idle"
    /\ lc_y = [shape |-> <<0>>, data |-> <<>>]
    /\ lc_arg = [shape |-> <<0>>, data |-> <<>>]
    /\ lc_c = <<>>

\* A caller passes an array of labels; lc_arg keeps the caller's copy.
LcCall ==
    /\ lc_pc = "idle"
    /\ \E a \in Arrays : lc_y' = a /\ lc_arg' = a
    /\ lc_pc' = "called"
    /\ lc_c' = <<>>
    /\ UNCHANGED <<gen_vars, ev_vars>>

\* _get_color_codes, lines 91-112
GetColorCodes ==
    /\ lc_pc = "called"
    /\ IF column_or_1d_ok(lc_y)
       THEN /\ lc_c' = get_color_codes(lc_y)
            /\ lc_y' = ArgAfterColorCodes(lc_y)
            /\ lc_pc' = "returned"
       ELSE /\ lc_pc' = "raised"
            /\ UNCHANGED <<lc_c, lc_y>>
    /\ UNCHANGED <<lc_arg, gen_vars, ev_vars>>

LcNext ==
    \/ LcCall
    \/ GetColorCodes

----------------------------------------------------------------------------
\* evaluate_print.  Scores are small integers (only their order matters);
\* a metric rounded to 4 decimals is held as its number of ten-thousandths.

\* Longest ground-truth / score array handed to evaluate_print.
EvMaxLen == 4
\* Scores range over 1 .. MaxScore.
MaxScore == 4

Decimals == 4

Names == {"KNN"}

\* np.round(num / den, decimals), in units of 10^-decimals: round half to even.
np_round(num, den, decimals) ==
    LET scaled == num * (10 ^ decimals)
        q == scaled \div den
        r == scaled % den
    IN  IF 2 * r > den \/ (2 * r = den /\ q % 2 = 1) THEN q + 1 ELSE q

Positives(y) == {i \in 1 .. Len(y) : y[i] = 1}
Negatives(y) == {i \in 1 .. Len(y) : y[i] # 1}

\* roc_auc_score raises ValueError unless both classes are present.
roc_auc_score_ok(y, s) ==
    /\ Len(y) = Len(s)
    /\ Positives(y) # {}
    /\ Negatives(y) # {}

\* roc_auc_score(y, s) as the fraction <<numerator, denominator>>: the share
\* of (outlier, inlier) pairs ranked in the right order, ties counting half.
roc_auc_score(y, s) ==
    LET pairs == Positives(y) \X Negatives(y)
        right == {p \in pairs : s[p[1]] > s[p[2]]}
        tied  == {p \in pairs : s[p[1]] = s[p[2]]}
    IN  <<2 * Cardinality(right) + Cardinality(tied), 2 * Cardinality(pairs)>>

\* precision_n_scores(y, s) as a fraction: of the n best-scored samples
\* (n = number of true outliers, ties kept in input order), the share that
\* are true outliers.
precision_n_scores(y, s) ==
    LET n == Cardinality(Positives(y))
        Before(j, i) == s[j] > s[i] \/ (s[j] = s[i] /\ j < i)
        rank(i) == Cardinality({j \in 1 .. Len(s) : Before(j, i)})
        top == {i \in 1 .. Len(s) : rank(i) < n}
    IN  <<Cardinality(top \cap Positives(y)), n>>

\* '{clf_name} ROC:{roc}, precision @ rank n:{prn}'.format(...)
format(clf_name, roc, prn) ==
    <<clf_name, " ROC:", roc, ", precision @ rank n:", prn>>

\* The line evaluate_print builds, lines 208-211.
SummaryLine(clf_name, y, y_pred) ==
    LET auc == roc_auc_score(y, y_pred)
        pan == precision_n_scores(y, y_pred)
    IN  format(clf_name,
               np_round(auc[1], auc[2], Decimals),
               np_round(pan[1], pan[2], Decimals))

\* A variant of print that writes the line twice.
printTwice(out, line) == Append(Append(out, line), line)

\* print(line): one line more on standard output.
print(out, line) == Append(out, line)

\* The value of a call that ends without a return statement: None, held as
\* the empty tuple of returned values.
ReturnValue(line) == <<>>

EvInit ==
    /\ ev_pc = "idle" /\ ev_name = "" /\ ev_y = <<>> /\ ev_pred = <<>>
    /\ stdout = <<>> /\ ev_ret = <<>>

\* A caller passes ground truth and scores of one length.
EvCall ==
    /\ ev_pc = "idle"
    /\ \E name \in Names, n \in 0 .. EvMaxLen :
         \E y \in [1 .. n -> {0, 1}], p \in [1 .. n -> 1 .. MaxScore] :
            /\ ev_name' = name
            /\ ev_y' = [shape |-> <<n>>, data |-> y]
            /\ ev_pred' = [shape |-> <<n>>, data |-> p]
    /\ ev_pc' = "called"
    /\ UNCHANGED <<stdout, ev_ret, gen_vars, lc_vars>>

\* evaluate_print, lines 191-211
EvaluatePrint ==
    /\ ev_pc = "called"
    /\ IF /\ column_or_1d_ok(ev_y)
          /\ column_or_1d_ok(ev_pred)
          /\ roc_auc_score_ok(column_or_1d(ev_y), column_or_1d(ev_pred))
       THEN LET line == SummaryLine(ev_name, column_or_1d(ev_y),
                                    column_or_1d(ev_pred))
            IN  /\ stdout' = print(stdout, line)
                /\ ev_ret' = ReturnValue(line)
                /\ ev_pc' = "returned"
       ELSE /\ ev_pc' = "raised"
            /\ UNCHANGED <<stdout, ev_ret>>
    /\ UNCHANGED <<ev_name, ev_y, ev_pred, gen_vars, lc_vars>>

EvNext ==
    \/ EvCall
    \/ EvaluatePrint

Init == GenInit /\ LcInit /\ EvInit

\* generate_data and its caller
Spec == Init /\ [][GenNext]_vars

\* _get_color_codes and its caller
SpecLabeler == Init /\ [][LcNext]_vars

\* evaluate_print and its caller
SpecEvaluator == Init /\ [][EvNext]_vars

----------------------------------------------------------------------------
\* Properties of generate_data.

Returned == pc = "returned"

\* number of labels equal to 1
Ones(y) == Cardinality({i \in 1 .. Len(y) : y[i] = 1})

\* indices of the draws made for the test split
TestDraws == {i \in 1 .. Len(draws) : draws[i] \in {"randn_test", "uniform_test"}}

\* labels are 0 or 1, and no 0 follows a 1
ZerosThenOnes(y) ==
    /\ \A i \in 1 .. Len(y) : y[i] \in {0, 1}
    /\ \A i \in 1 .. Len(y) : \A j \in 1 .. Len(y) :
           (i < j /\ y[i] = 1) => y[j] = 1

\* row i carries label 1 exactly when it was drawn from the uniform population
LabelsMatchPopulation(X, y) ==
    /\ Len(X) = Len(y)
    /\ \A i \in 1 .. Len(X) :
           /\ (y[i] = 1) <=> (X[i][1] = "uniform")
           /\ (y[i] = 0) <=> (X[i][1] = "randn")

ValidTrainArgs == n_train > 0 /\ ValidContamination(cnum)

\* C1: for positive n_train and contamination in (0, 0.5) the returned
\* training matrix has exactly n_train rows, and when a test split is
\* returned for a positive n_test it has exactly n_test rows.
C1_RowCounts ==
    (Returned /\ ValidTrainArgs) =>
        /\ Len(ret[1]) = n_train
        /\ (Len(ret) = 4 /\ n_test > 0) => Len(ret[3]) = n_test

\* C2: for positive n_train and contamination in (0, 0.5) the returned
\* y_train has exactly floor(n_train * contamination) entries equal to 1 and
\* all others 0; likewise y_test with n_test when a test split is returned.
C2_OutlierCount ==
    (Returned /\ ValidTrainArgs) =>
        /\ Ones(ret[2]) = Floor(n_train * cnum, ContDen)
        /\ \A i \in 1 .. Len(ret[2]) : ret[2][i] \in {0, 1}
        /\ (Len(ret) = 4 /\ n_test > 0) =>
               /\ Ones(ret[4]) = Floor(n_test * cnum, ContDen)
               /\ \A i \in 1 .. Len(ret[4]) : ret[4][i] \in {0, 1}

C4_LabelsShape ==
    Returned =>
        /\ Len(ret[2]) = Len(ret[1])
        /\ ZerosThenOnes(ret[2])
        /\ Len(ret) = 4 =>
               /\ Len(ret[4]) = Len(ret[3])
               /\ ZerosThenOnes(ret[4])

\* both splits were returned, each with inlier and outlier labels
C4_Witness ==
    /\ Returned /\ Len(ret) = 4
    /\ Ones(ret[2]) >= 1 /\ Ones(ret[2]) < Len(ret[2])
    /\ Ones(ret[4]) >= 1 /\ Ones(ret[4]) < Len(ret[4])

\* C6: a call with contamination outside (0, 0.5), with a non-positive
\* n_train, or without train_only and a non-positive n_test, ends in an
\* error and returns no dataset.
C6_RejectsBadParameters ==
    (Finished /\ (\/ ~ValidContamination(cnum)
                  \/ n_train <= 0
                  \/ (~train_only /\ n_test <= 0))) =>
        (pc = "raised" /\ ret = <<>>)

\* C7: for positive n_train and contamination in (0, 0.5) with
\* floor(n_train * contamination) = 0, a train-only call completes without
\* failure and returns labels that are all 0.
C7_EmptyOutliersSucceed ==
    (Finished /\ train_only /\ ValidTrainArgs
              /\ Floor(n_train * cnum, ContDen) = 0) =>
        /\ Returned
        /\ \A i \in 1 .. Len(ret[2]) : ret[2][i] = 0

\* C8: no partial dataset is ever returned: a call that fails returns
\* nothing; when the training split fails validation (or anything before
\* it raises) no test split is drawn or built; when the test split fails,
\* the training split, although built and validated, is not returned; and a
\* call that returns hands back only validated splits.
C8_NoPartialDataset ==
    /\ ~Returned => ret = <<>>
    /\ (pc = "raised" /\ raised_at <= 65) =>
           (TestDraws = {} /\ allocated \cap {"X_test", "y_test"} = {})
    /\ (pc = "raised" /\ raised_at > 65) =>
           (~train_only /\ check_X_y(X_train, y_train))
    /\ Returned =>
           /\ Len(ret) = (IF train_only THEN 2 ELSE 4)
           /\ check_X_y(ret[1], ret[2])
           /\ Len(ret) = 4 => check_X_y(ret[3], ret[4])

\* the test split has zero rows and fails validation after the training
\* split was built and validated
C8_Witness ==
    /\ pc = "raised" /\ raised_at = 85
    /\ Len(X_test) = 0
    /\ Len(X_train) >= 2 /\ check_X_y(X_train, y_train)
    /\ ret = <<>>

\* C10: in every returned split of a call with positive n and contamination
\* in (0, 0.5), a row carries label 1 iff it was drawn from the uniform
\* outlier population and label 0 iff it was drawn from a Gaussian cluster.
C10_LabelsFollowPopulation ==
    (Returned /\ ValidTrainArgs) =>
        /\ LabelsMatchPopulation(ret[1], ret[2])
        /\ (Len(ret) = 4 /\ n_test > 0) => LabelsMatchPopulation(ret[3], ret[4])

----------------------------------------------------------------------------
\* Properties of _get_color_codes.

\* C9: the codes have the length of the flattened input; position i holds
\* 'r' iff label i equals 1 and 'b' for every other label value; an input of
\* shape (n,) or (n, 1) is accepted; the input is left unmodified.
C9_ColorCodes ==
    /\ lc_pc = "returned" =>
           /\ Len(lc_c) = Prod(lc_arg.shape)
           /\ \A i \in 1 .. Len(lc_c) :
                  /\ (lc_c[i] = "r") <=> (lc_arg.data[i] = 1)
                  /\ (lc_c[i] = "b") <=> (lc_arg.data[i] # 1)
           /\ lc_y = lc_arg
    /\ lc_pc = "raised" =>
           (Len(lc_arg.shape) = 2 /\ lc_arg.shape[2] # 1)

\* a column of shape (3, 1) holding a 2, a 1 and a 0 was coded
C9_Witness ==
    /\ lc_pc = "returned"
    /\ lc_arg.shape = <<3, 1>>
    /\ lc_arg.data = <<2, 1, 0>>
    /\ lc_c = <<"b", "r", "b">>

----------------------------------------------------------------------------
\* Properties of evaluate_print.

\* C5 as stated: a call with two-class ground truth returns the formatted
\* line to its caller and writes that line to standard output exactly once.
C5_ReturnsAndPrints ==
    ev_pc = "returned" =>
        /\ ev_ret = <<SummaryLine(ev_name, ev_y.data, ev_pred.data)>>
        /\ stdout = <<SummaryLine(ev_name, ev_y.data, ev_pred.data)>>

\* C5 amended: a call with two-class ground truth writes the formatted line
\* to standard output exactly once and returns no value (None); a call
\* that fails writes nothing.
C5_PrintsOnceReturnsNone ==
    /\ ev_pc = "returned" =>
           /\ Positives(ev_y.data) # {} /\ Negatives(ev_y.data) # {}
           /\ stdout = <<SummaryLine(ev_name, ev_y.data, ev_pred.data)>>
           /\ ev_ret = <<>>
    /\ ev_pc # "returned" => (stdout = <<>> /\ ev_ret = <<>>)
    /\ (ev_pc = "returned" /\ ev_y.data = <<0, 0, 1, 1>>
                           /\ ev_pred.data = <<1, 3, 2, 4>>) =>
           stdout = <<format(ev_name, 7500, 5000)>>

\* y = [0, 0, 1, 1] with scores ordered as [0.1, 0.4, 0.35, 0.8] was printed
\* as ROC 0.75 and precision @ rank n 0.5
C5_Witness ==
    /\ ev_pc = "returned"
    /\ ev_y.data = <<0, 0, 1, 1>> /\ ev_pred.data = <<1, 3, 2, 4>>
    /\ stdout = <<<<"KNN", " ROC:", 7500, ", precision @ rank n:", 5000>>>>
    /\ ev_ret = <<>>

====
